---- MODULE Spec2Model ----
(***************************************************************************)
(* OpenFreebuds: the Huawei battery handler (OfbHuaweiBatteryHandler).     *)
(* on_package decoding, the on_init bootstrap, the periodic update task    *)
(* and cleanup(), on asyncio's single cooperative scheduler.               *)
(* The tray icon (OfbTrayIcon): boot(), close(), the event loop task and   *)
(* the battery percentage icons of _update_ui.                             *)
(***************************************************************************)
EXTENDS Integers, Sequences, FiniteSets, TLC

\* ------------------------------------------------------------------ bounds
\* number of on_init() invocations (each may create one periodic task)
MaxInit == 2
\* number of cleanup() invocations
MaxCleanup == 2

\* number of boot() invocations of the tray icon (each may create one loop task)
MaxBoot == 2
\* number of close() invocations of the tray icon
MaxClose == 2

InitIds == 1..MaxInit
\* the loop task created by a boot() takes the lowest unused id
LoopIds == 1..MaxBoot
\* the task created by the i-th on_init() invocation is task i
TaskIds == InitIds

\* ------------------------------------------------------------ Python values
\* Values kept in the property store, tagged with their Python type.
PyInt(n) == [t |-> "int", i |-> n, s |-> ""]
PyStr(x) == [t |-> "str", i |-> 0, s |-> x]
PyBool(b) == [t |-> "bool", i |-> IF b THEN 1 ELSE 0, s |-> ""]

\* mutant: str(bool) in place of json.dumps(bool)
py_str(b) == PyStr(IF b THEN "True" ELSE "False")

\* json.dumps(bool): the JSON literal, a Python str
json_dumps(b) == PyStr(IF b THEN "true" ELSE "false")

\* an empty dict
EmptyDict == [k \in {} |-> PyInt(0)]

\* ------------------------------------------------------------------ packets
\* parameter ids read by the handler
ParamIds == {1, 2, 3}

\* byte sequences a parameter may carry (well-formed and malformed lengths)
ByteSeqs == { <<>>, <<1>>, <<55>>, <<0, 1>>, <<40, 45, 99>>, <<7, 1, 0>> }

\* package.parameters: a mapping from some parameter ids to byte sequences
Packets == UNION { [ids -> ByteSeqs] : ids \in SUBSET ParamIds }

\* the packet of the battery decode scenario
ScenarioPacket == (1 :> <<55>>) @@ (2 :> <<40, 45, 99>>) @@ (3 :> <<1>>)

\* responses the device gives to a read request in the lifecycle model
ResponsePackets == { ScenarioPacket }

\* b"\x01" in data: the one-byte needle occurs among the bytes
ContainsMarker(data) == \E k \in 1..Len(data) : data[k] = 1

\* HuaweiSppPackage.read_rq(CMD_BATTERY_READ, [1, 2, 3])
ReadRq == [cmd |-> "CMD_BATTERY_READ", params |-> <<1, 2, 3>>]

\* --------------------------------------------------------------- on_package
\* mutant: a missing parameter 1 is published as level 0
OutGlobal_default(p) ==
    IF 1 \in DOMAIN p /\ Len(p[1]) = 1
    THEN "global" :> PyInt(p[1][1])
    ELSE "global" :> PyInt(0)

\* `if 1 in package.parameters and len(package.parameters[1]) == 1`
OutGlobal(p) ==
    IF 1 \in DOMAIN p /\ Len(p[1]) = 1
    THEN "global" :> PyInt(p[1][1])
    ELSE EmptyDict

\* mutant: the per-earbud levels are decoded whatever w_tws says
OutLevels_no_tws(p, tws) ==
    IF 2 \in DOMAIN p /\ Len(p[2]) = 3
    THEN ("left" :> PyInt(p[2][1])) @@ ("right" :> PyInt(p[2][2]))
         @@ ("case" :> PyInt(p[2][3]))
    ELSE EmptyDict

\* `if 2 in package.parameters and len(..) == 3 and self.w_tws`
OutLevels(p, tws) ==
    IF 2 \in DOMAIN p /\ Len(p[2]) = 3 /\ tws
    THEN ("left" :> PyInt(p[2][1])) @@ ("right" :> PyInt(p[2][2]))
         @@ ("case" :> PyInt(p[2][3]))
    ELSE EmptyDict

\* mutant: only the first byte of parameter 3 is compared with the marker
OutCharging_first_byte(p) ==
    IF 3 \in DOMAIN p /\ Len(p[3]) > 0
    THEN "is_charging" :> json_dumps(p[3][1] = 1)
    ELSE EmptyDict

\* `if 3 in package.parameters and len(package.parameters[3]) > 0`
OutCharging(p) ==
    IF 3 \in DOMAIN p /\ Len(p[3]) > 0
    THEN "is_charging" :> json_dumps(ContainsMarker(p[3]))
    ELSE EmptyDict

\* the dict `out` that on_package hands to put_property
OnPackageOut(p, tws) == OutGlobal(p) @@ OutLevels(p, tws) @@ OutCharging(p)

\* put_property(namespace, None, value): shallow merge into the namespace
MergeInto(old, new) == new @@ old

\* -------------------------------------------------------------------- state
VARIABLES
    w_tws,            \* self.w_tws
    periodic_update,  \* self.periodic_update
    started,          \* self.driver.started
    update_task,      \* self.update_task: 0 is None, else a task id
    taskState,        \* per task: where the periodic task's coroutine is
    cancelReq,        \* per task: cancel() was called and not yet delivered
    initPc,           \* per on_init() invocation: where the coroutine is
    awaiting,         \* per task: cleanup() coroutines suspended in `await` on it
    store,            \* property store, namespace "battery"
    published,        \* the last dict handed to put_property("battery", None, .)
    lastPkt,          \* the last packet handled by on_package
    putCalls,         \* put_property calls made for the last packet
    cleanupsCalled,   \* cleanup() invocations made
    cleanupRaised,    \* some cleanup() invocation ended by raising
    cleaned,          \* per task: a cleanup() that cancelled it has returned
    cancelledAt,      \* where the task stood at the latest cancel() of a live task
    retried,          \* some loop went round again after a failed update
    initSent,         \* per on_init(): the requests it passed to send_package
    initPuts          \* per on_init(): completed put_property calls of its own

\* the tray icon (OfbTrayIcon) of the Qt application
VARIABLES
    ui_update_task,   \* self.ui_update_task: 0 is None, else a loop task id
    loopPc,           \* per loop task: where _update_loop's coroutine is
    loopCancel,       \* per loop task: cancel() was called and not yet delivered
    member,           \* per loop task: the event-bus member id it obtained
    exitCalls,        \* per loop task: ctx.exit(1) calls it made
    bootsCalled,      \* boot() invocations made
    bootUi,           \* boot() coroutines suspended inside their _update_ui
    closesCalled,     \* close() invocations made
    closeAwait,       \* per loop task: close() coroutines suspended in `await` on it
    closeRaised,      \* some close() invocation ended by raising
    icons,            \* battery_left_icon, battery_right_icon, battery_case_icon
    lastUi,           \* what the last completed _update_ui read
    lastEvent,        \* the last event wait_for_event returned to a loop
    windowShown       \* ctx.main_window.show() was called

batteryVars ==
        << w_tws, periodic_update, started, update_task, taskState, cancelReq,
           initPc, awaiting, store, published, lastPkt, putCalls,
           cleanupsCalled, cleanupRaised, cleaned, cancelledAt, retried,
           initSent, initPuts >>

loopVars == << loopPc, loopCancel, member, exitCalls >>
callVars == << bootsCalled, bootUi, closesCalled, closeAwait, closeRaised >>
uiVars == << icons, lastUi >>
trayVars == << ui_update_task, loopVars, callVars, uiVars, lastEvent,
               windowShown >>

vars == << batteryVars, trayVars >>

configVars == << w_tws, periodic_update >>
storeVars == << store, published, lastPkt, putCalls >>
taskVars == << taskState, cancelReq, retried >>
initVars == << initPc, initSent, initPuts >>
cleanupVars == << awaiting, cleanupsCalled, cleanupRaised, cleaned, cancelledAt >>

\* the coroutine returned: by `break`, or after catching CancelledError
Returned == {"stopped", "unwound"}
\* a task that has ended: returned, cancelled before its first step, or raised
Terminated == Returned \cup {"cancelled", "error"}
\* a task suspended inside the loop body
Suspended == {"sleep", "send", "put"}

NoPacket == [k \in {} |-> <<>>]

\* the three battery percentage icons
IconKeys == {"left", "right", "case"}

\* what _update_ui reads: the state, the keys of get_property("battery")
\* (none for an empty dict or None) and the enabled tray_show_*_battery flags
NoRead == [state |-> "none", battery |-> {}, flags |-> {}]
NoEvent == [kind |-> "none", arg |-> ""]

\* OfbTrayIcon.__init__: no loop task, no battery icon
TrayInitRest ==
    /\ ui_update_task = 0
    /\ loopPc = [t \in LoopIds |-> "none"]
    /\ loopCancel = [t \in LoopIds |-> FALSE]
    /\ member = [t \in LoopIds |-> "none"]
    /\ exitCalls = [t \in LoopIds |-> 0]
    /\ bootsCalled = 0
    /\ bootUi = 0
    /\ closesCalled = 0
    /\ closeAwait = [t \in LoopIds |-> 0]
    /\ closeRaised = FALSE
    /\ icons = [k \in IconKeys |-> "none"]
    /\ lastUi = NoRead
    /\ lastEvent = NoEvent
    /\ windowShown = FALSE

\* everything but the constructor's arguments
InitRest ==
    /\ started = TRUE
    /\ update_task = 0
    /\ taskState = [t \in TaskIds |-> "none"]
    /\ cancelReq = [t \in TaskIds |-> FALSE]
    /\ initPc = [i \in InitIds |-> "idle"]
    /\ awaiting = [t \in TaskIds |-> 0]
    /\ store = EmptyDict
    /\ published = EmptyDict
    /\ lastPkt = NoPacket
    /\ putCalls = 0
    /\ cleanupsCalled = 0
    /\ cleanupRaised = FALSE
    /\ cleaned = [t \in TaskIds |-> FALSE]
    /\ cancelledAt = "never"
    /\ retried = FALSE
    /\ initSent = [i \in InitIds |-> <<>>]
    /\ initPuts = [i \in InitIds |-> 0]

\* __init__(w_tws=True, periodic_update=<either>)
Init ==
    /\ w_tws = TRUE
    /\ periodic_update \in BOOLEAN
    /\ InitRest
    /\ TrayInitRest

\* __init__(w_tws=<either>, periodic_update=False)
PkgInit ==
    /\ w_tws \in BOOLEAN
    /\ periodic_update = FALSE
    /\ InitRest
    /\ TrayInitRest

\* ---------------------------------------------------------------- on_package
\* on_package(p): build out, then one put_property("battery", None, out)
OnPackage(p) ==
    /\ published' = OnPackageOut(p, w_tws)
    /\ store' = MergeInto(store, OnPackageOut(p, w_tws))
    /\ lastPkt' = p
    /\ putCalls' = 1

\* the dispatcher delivers an unsolicited CMD_BATTERY_NOTIFY packet
Dispatch(p) ==
    /\ OnPackage(p)
    /\ UNCHANGED << trayVars, configVars, started, update_task, taskVars, initVars,
                    cleanupVars >>

\* ------------------------------------------------------------------ on_init
\* mutant: the task is created whatever periodic_update says
StartsPeriodic_always(pu) == TRUE

\* `if self.periodic_update:` decides whether on_init creates the task
StartsPeriodic(pu) == pu

\* mutant: the periodic task is created before the bootstrap request
OnInitCall_early(i) ==
    /\ initPc[i] = "idle"
    /\ \A j \in InitIds : j < i => initPc[j] # "idle"
    /\ initPc' = [initPc EXCEPT ![i] = "send"]
    /\ initSent' = [initSent EXCEPT ![i] = Append(@, ReadRq)]
    /\ taskState' = [taskState EXCEPT ![i] = "created"]
    /\ update_task' = i
    /\ UNCHANGED << trayVars, configVars, started, cancelReq, retried,
                    storeVars, initPuts, cleanupVars >>

\* on_init() is invoked and suspends in send_package(read_rq(.., [1, 2, 3]))
OnInitCall(i) ==
    /\ initPc[i] = "idle"
    /\ \A j \in InitIds : j < i => initPc[j] # "idle"
    /\ initPc' = [initPc EXCEPT ![i] = "send"]
    /\ initSent' = [initSent EXCEPT ![i] = Append(@, ReadRq)]
    /\ UNCHANGED << trayVars, configVars, started, update_task, taskVars, storeVars,
                    initPuts, cleanupVars >>

\* the correlated response arrives; on_init feeds it to on_package and
\* suspends in put_property
OnInitResponse(i, p) ==
    /\ initPc[i] = "send"
    /\ OnPackage(p)
    /\ initPc' = [initPc EXCEPT ![i] = "put"]
    /\ UNCHANGED << trayVars, configVars, started, update_task, taskVars, initSent,
                    initPuts, cleanupVars >>

\* mutant: the periodic task is created although the bootstrap failed
OnInitFail_leaves_task(i) ==
    /\ initPc[i] = "send"
    /\ initPc' = [initPc EXCEPT ![i] = "failed"]
    /\ taskState' = [taskState EXCEPT ![i] = "created"]
    /\ update_task' = i
    /\ UNCHANGED << trayVars, configVars, started, cancelReq, retried, storeVars,
                    initSent, initPuts, cleanupVars >>

\* send_package raises (transport closed, timeout): on_init raises
OnInitFail(i) ==
    /\ initPc[i] = "send"
    /\ initPc' = [initPc EXCEPT ![i] = "failed"]
    /\ UNCHANGED << trayVars, configVars, started, update_task, taskVars, storeVars,
                    initSent, initPuts, cleanupVars >>

\* put_property returns; on_init creates the periodic task if enabled, returns
OnInitFinish(i) ==
    /\ initPc[i] = "put"
    /\ initPuts' = [initPuts EXCEPT ![i] = @ + 1]
    /\ initPc' = [initPc EXCEPT ![i] = "returned"]
    /\ IF StartsPeriodic(periodic_update)
       THEN /\ taskState' = [taskState EXCEPT ![i] = "created"]
            /\ update_task' = i
       ELSE UNCHANGED << taskState, update_task >>
    /\ UNCHANGED << trayVars, configVars, started, cancelReq, retried,
                    storeVars, initSent, cleanupVars >>

\* ------------------------------------------------------ _periodic_update_loop
\* mutant: the test of driver.started is inverted
LoopOnUpdateFailure_inverted(st) == IF st THEN "stopped" ELSE "sleep"

\* mutant: the failure is not caught and ends the task
LoopOnUpdateFailure_raise(st) == "error"

\* the loop's `except Exception` around request_update(): break if the driver
\* has stopped, else go round again
LoopOnUpdateFailure(st) == IF ~st THEN "stopped" ELSE "sleep"

\* mutant: the inner handler also catches CancelledError and the loop goes on
LoopOnCancel_swallow(at) ==
    IF at = "created" THEN "cancelled"
    ELSE IF at = "sleep" THEN "unwound" ELSE "sleep"

\* CancelledError reaches the task: thrown into a coroutine that has not
\* started it ends the task as cancelled; inside the loop it passes the inner
\* `except Exception`, the outer `except asyncio.CancelledError` catches it
\* and the coroutine returns
LoopOnCancel(at) == IF at = "created" THEN "cancelled" ELSE "unwound"

\* mutant: the loop calls request_update() before its first sleep
TaskStart_update_first(t) ==
    /\ taskState[t] = "created"
    /\ ~cancelReq[t]
    /\ taskState' = [taskState EXCEPT ![t] = "send"]
    /\ UNCHANGED << trayVars, configVars, started, update_task, cancelReq, retried, storeVars, initVars, cleanupVars >>

\* the task's first step: enters the loop and suspends in asyncio.sleep
TaskStart(t) ==
    /\ taskState[t] = "created"
    /\ ~cancelReq[t]
    /\ taskState' = [taskState EXCEPT ![t] = "sleep"]
    /\ UNCHANGED << trayVars, configVars, started, update_task, cancelReq, retried, storeVars, initVars, cleanupVars >>

\* the interval has elapsed: request_update() suspends in send_package
TaskSleepDone(t) ==
    /\ taskState[t] = "sleep"
    /\ ~cancelReq[t]
    /\ taskState' = [taskState EXCEPT ![t] = "send"]
    /\ UNCHANGED << trayVars, configVars, started, update_task, cancelReq, retried,
                    storeVars, initVars, cleanupVars >>

\* the response arrives: on_package publishes it and suspends in put_property
TaskUpdateResponse(t, p) ==
    /\ taskState[t] = "send"
    /\ ~cancelReq[t]
    /\ OnPackage(p)
    /\ taskState' = [taskState EXCEPT ![t] = "put"]
    /\ UNCHANGED << trayVars, configVars, started, update_task, cancelReq, retried, initVars, cleanupVars >>

\* put_property returns, request_update() returns, next iteration
TaskPutDone(t) ==
    /\ taskState[t] = "put"
    /\ ~cancelReq[t]
    /\ taskState' = [taskState EXCEPT ![t] = "sleep"]
    /\ UNCHANGED << trayVars, configVars, started, update_task, cancelReq, retried, storeVars, initVars, cleanupVars >>

\* request_update() raises: the loop's failure handling
TaskUpdateFail(t) ==
    /\ taskState[t] = "send"
    /\ ~cancelReq[t]
    /\ taskState' = [taskState EXCEPT ![t] = LoopOnUpdateFailure(started)]
    /\ retried' = (retried \/ LoopOnUpdateFailure(started) = "sleep")
    /\ UNCHANGED << trayVars, configVars, started, update_task, cancelReq, storeVars, initVars, cleanupVars >>

\* the task's next step after cancel(): CancelledError at where it stands
TaskCancelled(t) ==
    /\ cancelReq[t]
    /\ taskState[t] \in {"created"} \cup Suspended
    /\ taskState' = [taskState EXCEPT ![t] = LoopOnCancel(taskState[t])]
    /\ cancelReq' = [cancelReq EXCEPT ![t] = FALSE]
    /\ UNCHANGED << trayVars, configVars, started, update_task, retried,
                    storeVars, initVars, cleanupVars >>

\* ------------------------------------------------------------------- cleanup
\* mutant: no `is not None` test, so cancel() is called on None and raises
CleanupOnNone_raise ==
    /\ cleanupRaised' = TRUE
    /\ UNCHANGED << update_task, cancelReq, awaiting, cleaned, cancelledAt >>

\* `if self.update_task is not None` is false: nothing to do
CleanupOnNone ==
    UNCHANGED << update_task, cancelReq, awaiting, cleaned, cancelledAt,
                 cleanupRaised >>

\* the task already ended: cancel() does nothing and the await does not
\* suspend; it raises what the task raised, a CancelledError being swallowed
CleanupOnEnded ==
    IF taskState[update_task] = "error"
    THEN /\ cleanupRaised' = TRUE
         /\ UNCHANGED << update_task, cancelReq, awaiting, cleaned,
                         cancelledAt >>
    ELSE /\ update_task' = 0
         /\ cleaned' = [cleaned EXCEPT ![update_task] = TRUE]
         /\ UNCHANGED << cancelReq, awaiting, cancelledAt, cleanupRaised >>

\* mutant: cancel() without the await: the task is only signalled
CleanupOnLive_signal_only ==
    /\ cancelReq' = [cancelReq EXCEPT ![update_task] = TRUE]
    /\ cancelledAt' = taskState[update_task]
    /\ update_task' = 0
    /\ cleaned' = [cleaned EXCEPT ![update_task] = TRUE]
    /\ UNCHANGED << awaiting, cleanupRaised >>

\* the task is live: cancel() it and suspend in `await self.update_task`
CleanupOnLive ==
    /\ cancelReq' = [cancelReq EXCEPT ![update_task] = TRUE]
    /\ cancelledAt' = taskState[update_task]
    /\ awaiting' = [awaiting EXCEPT ![update_task] = @ + 1]
    /\ UNCHANGED << update_task, cleaned, cleanupRaised >>

\* cleanup() is invoked and runs to its return or to its await
CleanupCall ==
    /\ cleanupsCalled < MaxCleanup
    /\ cleanupsCalled' = cleanupsCalled + 1
    /\ IF update_task = 0 THEN CleanupOnNone
       ELSE IF taskState[update_task] \in Terminated THEN CleanupOnEnded
       ELSE CleanupOnLive
    /\ UNCHANGED << trayVars, configVars, started, taskState, retried,
                    storeVars, initVars >>

\* the awaited task has ended: a cleanup() awaiting it resumes, swallows the
\* task's CancelledError if any, clears update_task and returns
CleanupResume(t) ==
    /\ awaiting[t] > 0
    /\ taskState[t] \in Terminated
    /\ awaiting' = [awaiting EXCEPT ![t] = @ - 1]
    /\ IF taskState[t] = "error"
       THEN /\ cleanupRaised' = TRUE
            /\ UNCHANGED << update_task, cleaned >>
       ELSE /\ update_task' = 0
            /\ cleaned' = [cleaned EXCEPT ![t] = TRUE]
            /\ UNCHANGED cleanupRaised
    /\ UNCHANGED << trayVars, configVars, started, taskVars, storeVars, initVars,
                    cleanupsCalled, cancelledAt >>

\* -------------------------------------------------------------------- driver
\* the transport stops: driver.started becomes false
DriverStop ==
    /\ started
    /\ started' = FALSE
    /\ UNCHANGED << trayVars, configVars, update_task, taskVars, storeVars, initVars,
                    cleanupVars >>

\* ------------------------------------------------------------ specifications
Next ==
    \/ \E i \in InitIds : OnInitCall(i)
    \/ \E i \in InitIds, p \in ResponsePackets : OnInitResponse(i, p)
    \/ \E i \in InitIds : OnInitFail(i)
    \/ \E i \in InitIds : OnInitFinish(i)
    \/ \E t \in TaskIds : TaskStart(t)
    \/ \E t \in TaskIds : TaskSleepDone(t)
    \/ \E t \in TaskIds, p \in ResponsePackets : TaskUpdateResponse(t, p)
    \/ \E t \in TaskIds : TaskPutDone(t)
    \/ \E t \in TaskIds : TaskUpdateFail(t)
    \/ \E t \in TaskIds : TaskCancelled(t)
    \/ CleanupCall
    \/ \E t \in TaskIds : CleanupResume(t)
    \/ DriverStop

\* the handler's lifecycle on the event loop
Spec == Init /\ [][Next]_vars

\* the event loop runs every ready callback: a cancelled task is stepped, a
\* cleanup() whose awaited task has ended is resumed, and the timer of
\* asyncio.sleep(update_interval) fires
Fairness ==
    /\ \A t \in TaskIds : WF_vars(TaskCancelled(t))
    /\ \A t \in TaskIds : WF_vars(CleanupResume(t))
    /\ \A t \in TaskIds : WF_vars(TaskSleepDone(t))

FairSpec == Init /\ [][Next]_vars /\ Fairness

\* on_package applied to every packet, delivered by the dispatcher
PkgNext == \E p \in Packets : Dispatch(p)

PkgSpec == PkgInit /\ [][PkgNext]_vars

\* ================================================================ tray icon
\* the coroutine of a loop task has not ended
LoopAlive == {"created", "subscribe", "wait", "ui", "unsub", "exit"}
\* it has ended: returned after unsubscribe(), returned after ctx.exit(1),
\* or ended with the CancelledError it did not catch
LoopEnded == {"closed", "exited", "cancelled"}

\* events wait_for_event may return: kind and args[0]
Events ==
    { [kind |-> "STATE_CHANGED", arg |-> "DESTROYED"],
      [kind |-> "STATE_CHANGED", arg |-> "CONNECTED"],
      [kind |-> "PROPERTY_CHANGED", arg |-> "battery"],
      [kind |-> "QT_SETTINGS_CHANGED", arg |-> ""],
      [kind |-> "QT_BRING_SETTINGS_UP", arg |-> ""],
      [kind |-> "DEVICE_CHANGED", arg |-> ""] }

States == {"CONNECTED", "WAIT", "DISCONNECTED"}
BatteryDicts == SUBSET {"global", "left", "right", "case"}
\* every combination _update_ui may read
Reads == [state : States, battery : BatteryDicts, flags : SUBSET IconKeys]
\* the combinations read in the lifecycle model
TrayReads ==
    { [state |-> "CONNECTED", battery |-> {"global", "left", "right", "case"},
       flags |-> IconKeys],
      [state |-> "DISCONNECTED", battery |-> {}, flags |-> IconKeys] }

\* ------------------------------------------------------------- battery icons
\* _update_battery_icons: per icon, create and show it if its flag is set and
\* its key is in battery, else hide it if it exists
UpdateBatteryIcons(ic, battery, flags) ==
    [k \in IconKeys |->
        IF k \in flags /\ k \in battery THEN "shown"
        ELSE IF ic[k] # "none" THEN "hidden" ELSE "none"]

\* _hide_battery_icons: hide every icon that exists
HideBatteryIcons(ic) ==
    [k \in IconKeys |-> IF ic[k] # "none" THEN "hidden" ELSE "none"]

\* the tail of _update_ui: `if state == STATE_CONNECTED: battery = ...;
\* if battery: update` / `else: hide`
UiIcons(ic, r) ==
    IF r.state = "CONNECTED"
    THEN IF r.battery # {}
         THEN UpdateBatteryIcons(ic, r.battery, r.flags)
         ELSE ic
    ELSE HideBatteryIcons(ic)

\* _update_ui resumes from its last await and runs to its end
UpdateUiDone(r) ==
    /\ icons' = UiIcons(icons, r)
    /\ lastUi' = r

\* _update_ui from call to return, with nothing interleaved
UpdateUi(r) ==
    /\ UpdateUiDone(r)
    /\ UNCHANGED << batteryVars, ui_update_task, loopVars, callVars,
                    lastEvent, windowShown >>

\* ---------------------------------------------------------------------- boot
\* the id asyncio.create_task gives the next loop task
NewLoop == CHOOSE t \in LoopIds :
              loopPc[t] = "none" /\ \A u \in LoopIds : u < t => loopPc[u] # "none"

\* boot() is invoked: creates the loop task if there is none, then suspends
\* in the first await of its own _update_ui
BootCall ==
    /\ bootsCalled < MaxBoot
    /\ bootsCalled' = bootsCalled + 1
    /\ IF ui_update_task = 0
       THEN /\ loopPc' = [loopPc EXCEPT ![NewLoop] = "created"]
            /\ ui_update_task' = NewLoop
       ELSE UNCHANGED << loopPc, ui_update_task >>
    /\ bootUi' = bootUi + 1
    /\ UNCHANGED << batteryVars, loopCancel, member, exitCalls, closesCalled,
                    closeAwait, closeRaised, uiVars, lastEvent, windowShown >>

\* the _update_ui of a boot() completes and boot() returns
BootUiDone(r) ==
    /\ bootUi > 0
    /\ bootUi' = bootUi - 1
    /\ UpdateUiDone(r)
    /\ UNCHANGED << batteryVars, ui_update_task, loopVars, bootsCalled,
                    closesCalled, closeAwait, closeRaised, lastEvent,
                    windowShown >>

\* -------------------------------------------------------------- _update_loop
\* mutant: no test for STATE_DESTROYED, the event is handled as a state change
LoopOnEvent_no_destroyed_test(e) ==
    IF e.kind \in {"STATE_CHANGED", "QT_SETTINGS_CHANGED", "PROPERTY_CHANGED"}
    THEN "ui" ELSE "wait"

\* the loop body after wait_for_event returned e: raise OfbServerDeadError
\* (caught outside the loop: ctx.exit), call _update_ui, or wait again
LoopOnEvent(e) ==
    IF e.kind = "STATE_CHANGED" /\ e.arg = "DESTROYED" THEN "exit"
    ELSE IF e.kind \in {"STATE_CHANGED", "QT_SETTINGS_CHANGED",
                        "PROPERTY_CHANGED"}
         THEN "ui" ELSE "wait"

\* CancelledError reaches the loop task: inside the `try` (wait_for_event,
\* _update_ui) the handler awaits unsubscribe(); anywhere else (not started,
\* in subscribe(), in the handlers' own awaits) it ends the task as cancelled
LoopOnCancel_pc(at) == IF at \in {"wait", "ui"} THEN "unsub" ELSE "cancelled"

\* mutant: the CancelledError handler does not call unsubscribe()
LoopOnCancel_no_unsubscribe(at, m) == m

\* `except asyncio.CancelledError: await self.ofb.unsubscribe(member_id)`
LoopOnCancel_member(at, m) == IF at \in {"wait", "ui"} THEN "releasing" ELSE m

\* the loop task's first step: suspends in `await self.ofb.subscribe()`
LoopStart(t) ==
    /\ loopPc[t] = "created"
    /\ ~loopCancel[t]
    /\ loopPc' = [loopPc EXCEPT ![t] = "subscribe"]
    /\ UNCHANGED << batteryVars, ui_update_task, loopCancel, member,
                    exitCalls, callVars, uiVars, lastEvent, windowShown >>

\* subscribe() returns the member id; the loop suspends in wait_for_event
LoopSubscribed(t) ==
    /\ loopPc[t] = "subscribe"
    /\ ~loopCancel[t]
    /\ member' = [member EXCEPT ![t] = "held"]
    /\ loopPc' = [loopPc EXCEPT ![t] = "wait"]
    /\ UNCHANGED << batteryVars, ui_update_task, loopCancel, exitCalls,
                    callVars, uiVars, lastEvent, windowShown >>

\* wait_for_event returns e and the loop body runs to its next await
LoopEvent(t, e) ==
    /\ loopPc[t] = "wait"
    /\ ~loopCancel[t]
    /\ lastEvent' = e
    /\ windowShown' = (windowShown \/ e.kind = "QT_BRING_SETTINGS_UP")
    /\ loopPc' = [loopPc EXCEPT ![t] = LoopOnEvent(e)]
    /\ IF LoopOnEvent(e) = "exit"
       THEN /\ ui_update_task' = 0
            /\ exitCalls' = [exitCalls EXCEPT ![t] = @ + 1]
       ELSE UNCHANGED << ui_update_task, exitCalls >>
    /\ UNCHANGED << batteryVars, loopCancel, member, callVars, uiVars >>

\* the loop's _update_ui completes; the loop suspends in wait_for_event
LoopUiDone(t, r) ==
    /\ loopPc[t] = "ui"
    /\ ~loopCancel[t]
    /\ UpdateUiDone(r)
    /\ loopPc' = [loopPc EXCEPT ![t] = "wait"]
    /\ UNCHANGED << batteryVars, ui_update_task, loopCancel, member,
                    exitCalls, callVars, lastEvent, windowShown >>

\* the loop task's next step after cancel(): CancelledError where it stands
LoopCancelled(t) ==
    /\ loopCancel[t]
    /\ loopPc[t] \in LoopAlive
    /\ loopPc' = [loopPc EXCEPT ![t] = LoopOnCancel_pc(loopPc[t])]
    /\ member' = [member EXCEPT ![t] = LoopOnCancel_member(loopPc[t], @)]
    /\ loopCancel' = [loopCancel EXCEPT ![t] = FALSE]
    /\ UNCHANGED << batteryVars, ui_update_task, exitCalls, callVars, uiVars,
                    lastEvent, windowShown >>

\* unsubscribe() returns and the coroutine returns
LoopUnsubDone(t) ==
    /\ loopPc[t] = "unsub"
    /\ ~loopCancel[t]
    /\ member' = [member EXCEPT ![t] = "released"]
    /\ loopPc' = [loopPc EXCEPT ![t] = "closed"]
    /\ UNCHANGED << batteryVars, ui_update_task, loopCancel, exitCalls,
                    callVars, uiVars, lastEvent, windowShown >>

\* ctx.exit(1) returns and the coroutine returns
LoopExitDone(t) ==
    /\ loopPc[t] = "exit"
    /\ ~loopCancel[t]
    /\ loopPc' = [loopPc EXCEPT ![t] = "exited"]
    /\ UNCHANGED << batteryVars, ui_update_task, loopCancel, member,
                    exitCalls, callVars, uiVars, lastEvent, windowShown >>

\* --------------------------------------------------------------------- close
\* `await self.ui_update_task` with the task ended: a task that returned
\* lets close() set ui_update_task to None and return; a cancelled task
\* raises CancelledError in close(), which has no handler for it
CloseOnEnded(t) ==
    IF loopPc[t] = "cancelled"
    THEN /\ closeRaised' = TRUE
         /\ UNCHANGED ui_update_task
    ELSE /\ ui_update_task' = 0
         /\ UNCHANGED closeRaised

\* close() is invoked and runs to its return, its raise or its await
CloseCall ==
    /\ closesCalled < MaxClose
    /\ closesCalled' = closesCalled + 1
    /\ IF ui_update_task = 0
       THEN UNCHANGED << ui_update_task, loopCancel, closeAwait, closeRaised >>
       ELSE IF loopPc[ui_update_task] \in LoopEnded
       THEN /\ CloseOnEnded(ui_update_task)
            /\ UNCHANGED << loopCancel, closeAwait >>
       ELSE /\ loopCancel' = [loopCancel EXCEPT ![ui_update_task] = TRUE]
            /\ closeAwait' = [closeAwait EXCEPT ![ui_update_task] = @ + 1]
            /\ UNCHANGED << ui_update_task, closeRaised >>
    /\ UNCHANGED << batteryVars, loopPc, member, exitCalls, bootsCalled,
                    bootUi, uiVars, lastEvent, windowShown >>

\* the awaited loop task has ended: a close() awaiting it resumes
CloseResume(t) ==
    /\ closeAwait[t] > 0
    /\ loopPc[t] \in LoopEnded
    /\ closeAwait' = [closeAwait EXCEPT ![t] = @ - 1]
    /\ CloseOnEnded(t)
    /\ UNCHANGED << batteryVars, loopVars, bootsCalled, bootUi, closesCalled,
                    uiVars, lastEvent, windowShown >>

\* ------------------------------------------------------- tray specifications
\* __init__ of the tray icon; the battery handler stays as constructed
TrayInit ==
    /\ w_tws = TRUE
    /\ periodic_update = FALSE
    /\ InitRest
    /\ TrayInitRest

TrayNext ==
    \/ BootCall
    \/ \E r \in TrayReads : BootUiDone(r)
    \/ \E t \in LoopIds : LoopStart(t)
    \/ \E t \in LoopIds : LoopSubscribed(t)
    \/ \E t \in LoopIds, e \in Events : LoopEvent(t, e)
    \/ \E t \in LoopIds, r \in TrayReads : LoopUiDone(t, r)
    \/ \E t \in LoopIds : LoopCancelled(t)
    \/ \E t \in LoopIds : LoopUnsubDone(t)
    \/ \E t \in LoopIds : LoopExitDone(t)
    \/ CloseCall
    \/ \E t \in LoopIds : CloseResume(t)

\* boot(), close() and the loop task on the event loop
TraySpec == TrayInit /\ [][TrayNext]_vars

IconNext == \E r \in Reads : UpdateUi(r)

\* _update_ui run again and again over everything it may read
IconSpec == TrayInit /\ [][IconNext]_vars

\* -------------------------------------------------------------------- claims
\* the published state of the battery decode scenario, with the given
\* value under "is_charging"
ScenarioState(chg) ==
    ("global" :> PyInt(55)) @@ ("left" :> PyInt(40)) @@ ("right" :> PyInt(45))
    @@ ("case" :> PyInt(99)) @@ ("is_charging" :> chg)

\* C1 as stated: on_package of the scenario packet with w_tws publishes
\* global 55, left 40, right 45, case 99 and is_charging the boolean true.
C1_PublishesBoolean ==
    (lastPkt = ScenarioPacket /\ w_tws)
        => published = ScenarioState(PyBool(TRUE))

\* C1 amended: on_package of the scenario packet with w_tws publishes
\* global 55, left 40, right 45, case 99 and is_charging the string "true",
\* the JSON literal json.dumps returns.
C1_PublishesJsonLiteral ==
    (lastPkt = ScenarioPacket /\ w_tws)
        => published = ScenarioState(PyStr("true"))

C1_Witness ==
    /\ lastPkt = ScenarioPacket
    /\ w_tws
    /\ putCalls = 1
    /\ DOMAIN published = {"global", "left", "right", "case", "is_charging"}

\* C2: once a cleanup() that cancelled a periodic task has returned, that
\* task has ended (it is not merely signalled) and stays ended, so it makes
\* no further request_update call, wherever in the loop cancel() reached it.
C2_CleanedTaskHasEnded ==
    \A t \in TaskIds :
        cleaned[t] => (taskState[t] \in Terminated /\ ~cancelReq[t])

C2_Witness ==
    \E t \in TaskIds :
        /\ cleaned[t]
        /\ taskState[t] = "unwound"
        /\ cancelledAt = "send"
        /\ awaiting[t] = 0

\* C3: a cleanup() invoked when update_task is None (a second call, or the
\* task never started) changes nothing, and one invoked after the loop has
\* ended on its own returns at once; neither raises nor suspends, and
\* update_task is None afterwards.
C3_CleanupIdempotent ==
    [][ (/\ cleanupsCalled' = cleanupsCalled + 1
         /\ \/ update_task = 0
            \/ taskState[update_task] \in (Returned \cup {"cancelled"}))
        => /\ update_task' = 0
           /\ cleanupRaised' = cleanupRaised
           /\ awaiting' = awaiting
           /\ UNCHANGED << taskState, cancelReq, storeVars,
                           initVars, configVars, started >>
           /\ (update_task = 0 => cleaned' = cleaned) ]_vars

C3_Witness ==
    /\ cleanupsCalled = 2
    /\ update_task = 0
    /\ ~cleanupRaised
    /\ \E t \in TaskIds : cleaned[t] /\ taskState[t] = "stopped"

\* C4: when an update call of the loop fails, the loop ends there if
\* driver.started is false at that moment and makes no further update call;
\* if it is true the loop does not end but is back in the interval sleep,
\* from which it makes its next update call unless it is cancelled.
C4_FailureFollowsLiveness ==
    /\ [][ \A t \in TaskIds :
             /\ (taskState[t] = "send" /\ ~cancelReq[t]
                 /\ taskState'[t] \notin {"send", "put"})
                   => taskState'[t] = (IF started THEN "sleep" ELSE "stopped")
             /\ taskState[t] = "stopped" => taskState'[t] = "stopped" ]_vars
    /\ \A t \in TaskIds :
          (taskState[t] = "sleep")
              ~> (taskState[t] = "send" \/ taskState[t] = "unwound")

C4_Witness ==
    /\ retried
    /\ ~started
    /\ \E t \in TaskIds : taskState[t] = "stopped" /\ ~cleaned[t]

\* C5 as stated: a periodic task that ends always ends by returning
\* normally, and never raises to its owner or to cleanup().
C5_AlwaysReturnsNormally ==
    /\ ~cleanupRaised
    /\ \A t \in TaskIds : taskState[t] \in Terminated => taskState[t] \in Returned

\* C5 amended: no update failure leaves the loop and cleanup() never raises:
\* a periodic task that ends either returns normally or, only when cancel()
\* reached it before its first step, ends as a cancelled task.
C5_NoFailureEscapes ==
    /\ [](/\ ~cleanupRaised
          /\ \A t \in TaskIds :
               taskState[t] \in Terminated
                   => taskState[t] \in (Returned \cup {"cancelled"}))
    /\ [][ \A t \in TaskIds :
             (taskState'[t] = "cancelled" /\ taskState[t] # "cancelled")
                 => taskState[t] = "created" ]_vars

C5_Witness ==
    /\ retried
    /\ \E t \in TaskIds : taskState[t] = "stopped"
    /\ \E t \in TaskIds : taskState[t] = "cancelled" /\ cleaned[t]

\* C6: once cleanup() has returned and every on_init() has finished, a
\* handler whose update_task is None (so that a further cleanup() would find
\* nothing to stop) has no live periodic task.
C6_NoLeakedTask ==
    (/\ cleanupsCalled >= 1
     /\ update_task = 0
     /\ \A t \in TaskIds : awaiting[t] = 0
     /\ \A i \in InitIds : initPc[i] \in {"idle", "returned", "failed"})
        => \A t \in TaskIds : taskState[t] \in ({"none"} \cup Terminated)

\* keys of the "battery" namespace and the parameter id each is decoded from
BatteryKeys == {"global", "left", "right", "case", "is_charging"}
ParamOf(k) == IF k = "global" THEN 1 ELSE IF k = "is_charging" THEN 3 ELSE 2

\* C7: a parameter id absent from a packet contributes no key to that
\* packet's published update, and a key already in the "battery" namespace
\* keeps its value across every packet that does not carry its parameter id.
C7_AbsentParametersKeepKeys ==
    /\ [](\A k \in BatteryKeys :
            ParamOf(k) \notin DOMAIN lastPkt => k \notin DOMAIN published)
    /\ [][ \A k \in DOMAIN store :
             ParamOf(k) \notin DOMAIN lastPkt'
                 => (k \in DOMAIN store' /\ store'[k] = store[k]) ]_vars

C7_Witness ==
    /\ 1 \notin DOMAIN lastPkt
    /\ 2 \in DOMAIN lastPkt
    /\ "global" \in DOMAIN store
    /\ "global" \notin DOMAIN published
    /\ "left" \in DOMAIN published

\* C8: a cleanup() suspended on a live periodic task eventually resumes with
\* the task ended, and a task that cancel() has reached starts no further
\* iteration: its next step ends it, also when it stood in the update call.
C8_CancelledLoopUnwinds ==
    /\ \A t \in TaskIds :
          (awaiting[t] > 0) ~> (awaiting[t] = 0 /\ taskState[t] \in Terminated)
    /\ [][ \A t \in TaskIds :
             cancelReq[t]
                 => (taskState'[t] = taskState[t]
                     \/ taskState'[t] \in Terminated) ]_vars

C8_Witness ==
    \E t \in TaskIds :
        /\ cleaned[t]
        /\ taskState[t] = "unwound"
        /\ cancelledAt = "put"
        /\ awaiting[t] = 0
        /\ update_task = 0

\* C9: an on_init() that has returned has created its periodic task exactly
\* when periodic_update is true; when it is false update_task stays None, no
\* task exists and no periodic update call is made.
C9_TaskIffPeriodicUpdate ==
    /\ \A i \in InitIds :
          initPc[i] = "returned" => ((taskState[i] # "none") <=> periodic_update)
    /\ ~periodic_update
          => (/\ update_task = 0
                        /\ \A t \in TaskIds : taskState[t] = "none")

C9_Witness ==
    /\ ~periodic_update
    /\ \A i \in InitIds : initPc[i] = "returned"
    /\ update_task = 0

\* C10: the periodic task of an on_init() exists, and on_init() has returned,
\* only after that on_init() issued exactly one read request for parameters
\* 1, 2 and 3 and its own put_property to "battery" has completed.
C10_BootstrapBeforeTask ==
    \A i \in InitIds :
        (taskState[i] # "none" \/ initPc[i] = "returned")
            => /\ initSent[i] = << ReadRq >>
               /\ initPuts[i] = 1
               /\ lastPkt \in ResponsePackets
               /\ DOMAIN store = DOMAIN OnPackageOut(lastPkt, w_tws)

C10_Witness ==
    \E i \in InitIds :
        /\ initPc[i] = "returned"
        /\ taskState[i] = "sleep"
        /\ initPuts[i] = 1
        /\ store = ScenarioState(PyStr("true"))

\* C11: a handler built with w_tws false never publishes "left", "right" or
\* "case" and never adds them to the "battery" namespace, whatever parameter
\* 2 carries, while a well-formed parameter 1 still publishes "global" and a
\* non-empty parameter 3 still publishes "is_charging".
C11_NoTwsNoEarbudKeys ==
    ~w_tws =>
        /\ DOMAIN published \cap {"left", "right", "case"} = {}
        /\ DOMAIN store \cap {"left", "right", "case"} = {}
        /\ (1 \in DOMAIN lastPkt /\ Len(lastPkt[1]) = 1)
               => "global" \in DOMAIN published
        /\ (3 \in DOMAIN lastPkt /\ Len(lastPkt[3]) > 0)
               => "is_charging" \in DOMAIN published

C11_Witness ==
    /\ ~w_tws
    /\ 2 \in DOMAIN lastPkt
    /\ Len(lastPkt[2]) = 3
    /\ DOMAIN published = {"global", "is_charging"}
    /\ DOMAIN store = {"global", "is_charging"}

\* C12: every update call of a periodic task starts from a completed interval
\* sleep: the first one only after the first sleep, and after an update has
\* succeeded or failed transiently the loop is back in the sleep before any
\* further update call, so one loop never has two update calls in flight nor
\* two in a row without a sleep between them.
C12_SleepBeforeEveryUpdate ==
    [][ \A t \in TaskIds :
          /\ (taskState'[t] = "send" /\ taskState[t] # "send")
                => (taskState[t] = "sleep" /\ ~cancelReq[t])
          /\ (taskState[t] \in {"created", "send", "put"}
              /\ taskState'[t] # taskState[t]
              /\ taskState'[t] \notin Terminated)
                => \/ taskState'[t] = "sleep"
                   \/ (taskState[t] = "send" /\ taskState'[t] = "put") ]_vars

C12_Witness ==
    /\ retried
    /\ started
    /\ \E t \in TaskIds : taskState[t] = "send" /\ initPuts[t] = 1

\* C13: for every packet, "global" is published exactly when parameter 1 is
\* present with one byte, "left", "right" and "case" exactly when parameter 2
\* is present with three bytes and w_tws is set, "is_charging" exactly when
\* parameter 3 is present and non-empty, its value being the JSON literal
\* true exactly when the byte 0x01 occurs among the parameter's bytes and
\* false otherwise; put_property is called once per packet, also when the
\* update is empty.
C13_MalformedParametersIgnored ==
    lastPkt # NoPacket =>
        /\ putCalls = 1
        /\ "global" \in DOMAIN published
              <=> (1 \in DOMAIN lastPkt /\ Len(lastPkt[1]) = 1)
        /\ \A k \in {"left", "right", "case"} :
              k \in DOMAIN published
                  <=> (2 \in DOMAIN lastPkt /\ Len(lastPkt[2]) = 3 /\ w_tws)
        /\ "is_charging" \in DOMAIN published
              <=> (3 \in DOMAIN lastPkt /\ Len(lastPkt[3]) > 0)
        /\ "is_charging" \in DOMAIN published
              => /\ published["is_charging"] \in {PyStr("true"), PyStr("false")}
                 /\ published["is_charging"] = PyStr("true")
                       <=> (\E k \in 1..Len(lastPkt[3]) : lastPkt[3][k] = 1)
        /\ DOMAIN published \subseteq BatteryKeys

C13_Witness ==
    /\ lastPkt = ((1 :> <<>>) @@ (2 :> <<0, 1>>) @@ (3 :> <<0, 1>>))
    /\ putCalls = 1
    /\ published = ("is_charging" :> PyStr("true"))
    /\ w_tws

\* C14: an on_init() whose bootstrap send_package raised has failed without
\* publishing anything and without creating its periodic task; with no other
\* on_init() under way or returned, the "battery" namespace is still empty,
\* update_task is still None, and every cleanup() has found nothing to stop.
C14_FailedBootstrapLeavesNothing ==
    \A i \in InitIds :
        initPc[i] = "failed" =>
            /\ taskState[i] = "none"
            /\ initPuts[i] = 0
            /\ update_task # i
            /\ (\A j \in InitIds : initPc[j] \in {"idle", "failed"})
                  => /\ store = EmptyDict
                     /\ putCalls = 0
                     /\ update_task = 0
                     /\ \A t \in TaskIds : taskState[t] = "none"
                     /\ \A t \in TaskIds : awaiting[t] = 0 /\ ~cleaned[t]
                     /\ ~cleanupRaised

C14_Witness ==
    /\ periodic_update
    /\ initPc[1] = "failed"
    /\ initSent[1] = << ReadRq >>
    /\ cleanupsCalled >= 1
    /\ update_task = 0
    /\ store = EmptyDict

\* C15 as stated: a loop task that has ended holds no member id: whatever it
\* obtained from subscribe() it has passed to unsubscribe(), on every exit
\* path.
C15_EveryMemberReleased ==
    \A t \in LoopIds : loopPc[t] \in LoopEnded => member[t] # "held"

\* C15 amended: a loop task that ends because it was cancelled has passed
\* the member id it obtained, if any, to unsubscribe() before it ended; a
\* loop task that ends after a STATE_DESTROYED event has not: it called
\* ctx.exit(1) and still holds its member id.
C15_CancelledLoopUnsubscribes ==
    \A t \in LoopIds :
        /\ loopPc[t] = "unsub" => member[t] = "releasing"
        /\ loopPc[t] = "closed" => member[t] = "released"
        /\ loopPc[t] = "cancelled" => member[t] \in {"none", "releasing"}
        /\ loopPc[t] \in {"exit", "exited"} => member[t] = "held"

C15_Witness ==
    /\ \E t \in LoopIds : loopPc[t] = "exited" /\ member[t] = "held"
    /\ \E t \in LoopIds : loopPc[t] = "closed" /\ member[t] = "released"

\* C16: no close() ends by raising, wherever the loop task stood when
\* close() cancelled it.
C16_CloseNeverRaises == ~closeRaised

\* C17: at most one loop task is alive at any time.
C17_AtMostOneLoopAlive ==
    Cardinality({t \in LoopIds : loopPc[t] \in LoopAlive}) <= 1

\* the event that announces the end of the server
Destroyed == [kind |-> "STATE_CHANGED", arg |-> "DESTROYED"]

\* C18: the step in which a loop receives STATE_CHANGED/STATE_DESTROYED
\* starts no _update_ui and changes no icon, sets ui_update_task to None and
\* makes the loop's one ctx.exit(1) call; from then on the loop takes no
\* further event and makes no further ctx.exit call.
C18_DestroyedEndsLoop ==
    [][ \A t \in LoopIds :
          /\ (loopPc[t] = "wait" /\ ~loopCancel[t] /\ loopPc'[t] # "wait"
              /\ lastEvent' = Destroyed)
                => /\ loopPc'[t] = "exit"
                   /\ ui_update_task' = 0
                   /\ exitCalls[t] = 0
                   /\ exitCalls'[t] = 1
                   /\ UNCHANGED uiVars
          /\ loopPc[t] \in {"exit", "exited"}
                => /\ loopPc'[t] \in {"exit", "exited", "cancelled"}
                   /\ exitCalls'[t] = exitCalls[t]
          /\ exitCalls'[t] > exitCalls[t] => lastEvent' = Destroyed ]_vars

C18_Witness ==
    \E t \in LoopIds :
        /\ loopPc[t] = "exit"
        /\ exitCalls[t] = 1
        /\ ui_update_task = 0
        /\ lastEvent = Destroyed
        /\ lastUi.state = "CONNECTED"
        /\ closesCalled = 1

\* C19: at most one _update_ui execution is in progress at any time,
\* counting the one boot() runs itself and the ones the loop tasks run.
C19_NoOverlappingUpdates ==
    bootUi + Cardinality({t \in LoopIds : loopPc[t] = "ui"}) <= 1

\* C20: after a completed _update_ui a battery icon is shown only if that
\* update read the state STATE_CONNECTED, the icon's flag enabled and the
\* icon's key in the "battery" property; otherwise an icon that exists is
\* hidden.
C20_IconsFollowLastUpdate ==
    lastUi # NoRead =>
        \A k \in IconKeys :
            icons[k] = "shown"
                => /\ lastUi.state = "CONNECTED"
                   /\ k \in lastUi.flags
                   /\ k \in lastUi.battery

====
